---- MODULE Spec2Model ----
(***************************************************************************)
(* Model of organize() of organizar_fotos_linux.py (exact + perceptual     *)
(* duplicate detection) and organizar_fotos_macos.py (exact only).         *)
(*                                                                         *)
(* One behaviour is one call of organize(src, dst): the files that         *)
(* os.walk yields are processed one per step (one loop iteration, with its *)
(* try/except, per action) and the log file is written after the loop.     *)
(* What the file system returns for a file (its year, its MD5 digest, its  *)
(* perceptual hash or None, whether the copy succeeds) is the input of the *)
(* iteration and is drawn from small sets.                                 *)
(*                                                                         *)
(* Strings of hexadecimal digits are sequences of digit values, so that    *)
(* int(p, 16) is a computation; None is the empty sequence (the only other *)
(* value Python's "if h" treats as false; phash never returns "").         *)
(***************************************************************************)
EXTENDS Integers, Sequences, FiniteSets, TLC

\* ------------------------------------------------------------------ bounds
\* Number of image files os.walk yields in one run (at most).
MaxFiles == 3

\* ------------------------------------------------------- program constants
\* int(p, 16): radix of the perceptual hash string.
HexBase == 16
\* "< 10": tolerance of the perceptual comparison.
Threshold == 10

\* ----------------------------------------------------------- input domains
\* md5_hash() results: two digests (hexdigest strings).
Hashes == { "d1", "d2" }
\* phash() results: hex strings "64", "69", "6e" (100, 105, 110: distances
\* 5 and exactly 10).
PHashes == { <<6, 4>>, <<6, 9>>, <<6, 14>> }
None == << >>
\* get_year() results (strings).
Years == { "2020", "2021" }
Paths == 1..MaxFiles
Variants == { "linux", "macos" }

VARIABLES
  variant,   \* which script runs
  pc,        \* "loop": inside os.walk; "done": log file written;
             \* "crashed": open() of the log file raised out of organize
  idx,       \* number of files the loop has taken so far
  unique,    \* dict unique: md5 -> phash string / None (linux), True (macos)
  log,       \* list log
  copies,    \* files written below dst by copy(), in order
  errors,    \* paths printed by the except handler, in order
  dstExists, \* whether the directory dst exists
  logFile,   \* content of dst/log_organizacion.txt
  logWrites, \* number of times the log file has been written
  hist       \* one record per loop iteration: its input and what it did

vars == <<variant, pc, idx, unique, log, copies, errors, dstExists, logFile,
          logWrites, hist>>

\* ------------------------------------------------------------ pure helpers
Abs(x) == IF x < 0 THEN -x ELSE x

\* int(s, 16) for a string of hex digits.
RECURSIVE IntHex(_)
IntHex(s) ==
  IF s = << >> THEN 0
  ELSE IntHex(SubSeq(s, 1, Len(s) - 1)) * HexBase + s[Len(s)]

\* Python truthiness of a stored perceptual hash ("if h").
Truthy(h) == h # None

\* Near with the comparison "<=" in place of "<".
NearInclusive(p, h) == Abs(IntHex(p) - IntHex(h)) <= Threshold

\* abs(int(p,16) - int(h,16)) < 10
Near(p, h) == Abs(IntHex(p) - IntHex(h)) < Threshold

\* StoredHashes without the filter "if h".
StoredHashesUnfiltered(u) == { u[k] : k \in DOMAIN u }

\* [h for h in unique.values() if h]
StoredHashes(u) == { u[k] : k \in { k \in DOMAIN u : Truthy(u[k]) } }

\* AnySimilar with a failed phash standing for the hash 0 on both sides
\* (no None, no filter): two undecodable images are then at distance 0.
AnySimilarZeroDefault(p, u) ==
  IF \E k \in DOMAIN u : Abs(IntHex(p) - IntHex(u[k])) < Threshold
    THEN "true" ELSE "false"

\* any(abs(int(p,16) - int(h,16)) < 10 for h in unique.values() if h):
\* "raise" when int(None, 16) is evaluated (TypeError), which happens as soon
\* as the generator yields one h; otherwise the truth value.
AnySimilar(p, u) ==
  IF StoredHashes(u) = {} THEN "false"
  ELSE IF p = None THEN "raise"
  ELSE IF \E h \in StoredHashes(u) : Near(p, h) THEN "true"
  ELSE "false"

\* d with d[k] = v (dict item assignment).
Put(u, k, v) == [x \in (DOMAIN u) \cup {k} |-> IF x = k THEN v ELSE u[x]]

EmptyDict == [x \in {} |-> None]

\* Folder without the year component.
FolderNoYear(decision, year) ==
  IF decision = "UNIQUE" THEN <<"dst", "Fotos", "">>
  ELSE <<"dst", "Posibles_Duplicados", "">>

\* os.path.join(dst, "Fotos" / "Posibles_Duplicados", year)
Folder(decision, year) ==
  IF decision = "UNIQUE" THEN <<"dst", "Fotos", year>>
  ELSE <<"dst", "Posibles_Duplicados", year>>

\* f"{full} => {folder}/{file}"
LogLine(path, folder) == [src |-> path, folder |-> folder, file |-> path]

\* ClassifyLinux with the exact test made on the dict "similar", which the
\* script creates and never fills: the test is always false.
ClassifyLinuxWrongDict(md5, p, u) ==
  LET s == AnySimilar(p, u) IN
    IF s = "raise"
      THEN [decision |-> "NONE", branch |-> "similar", unique |-> u]
    ELSE IF s = "true"
      THEN [decision |-> "DUPLICATE", branch |-> "similar", unique |-> u]
    ELSE [decision |-> "UNIQUE", branch |-> "else", unique |-> Put(u, md5, p)]

\* ClassifyLinux with the two tests in the other order.
ClassifyLinuxSimilarFirst(md5, p, u) ==
  LET s == AnySimilar(p, u) IN
    IF s = "raise"
      THEN [decision |-> "NONE", branch |-> "similar", unique |-> u]
    ELSE IF s = "true"
      THEN [decision |-> "DUPLICATE", branch |-> "similar", unique |-> u]
    ELSE IF md5 \in DOMAIN u
      THEN [decision |-> "DUPLICATE", branch |-> "exact", unique |-> u]
    ELSE [decision |-> "UNIQUE", branch |-> "else", unique |-> Put(u, md5, p)]

\* The if / elif / else of the linux script: the decision, the branch that
\* took it, and the dict afterwards.  decision "NONE": the elif raised.
ClassifyLinux(md5, p, u) ==
  IF md5 \in DOMAIN u
    THEN [decision |-> "DUPLICATE", branch |-> "exact", unique |-> u]
  ELSE LET s == AnySimilar(p, u) IN
    IF s = "raise"
      THEN [decision |-> "NONE", branch |-> "similar", unique |-> u]
    ELSE IF s = "true"
      THEN [decision |-> "DUPLICATE", branch |-> "similar", unique |-> u]
    ELSE [decision |-> "UNIQUE", branch |-> "else", unique |-> Put(u, md5, p)]

\* ClassifyMac without "unique[md5] = True".
ClassifyMacNoInsert(md5, u) ==
  IF md5 \in DOMAIN u
    THEN [decision |-> "DUPLICATE", branch |-> "exact", unique |-> u]
  ELSE [decision |-> "UNIQUE", branch |-> "else", unique |-> u]

\* The if / else of the macos script.
ClassifyMac(md5, u) ==
  IF md5 \in DOMAIN u
    THEN [decision |-> "DUPLICATE", branch |-> "exact", unique |-> u]
  ELSE [decision |-> "UNIQUE", branch |-> "else", unique |-> Put(u, md5, TRUE)]

Classify(v, md5, p, u) ==
  IF v = "linux" THEN ClassifyLinux(md5, p, u) ELSE ClassifyMac(md5, u)

\* LogAppend as log.insert(0, line).
LogPrepend(lg, line) == << line >> \o lg

\* list.append
LogAppend(lg, line) == Append(lg, line)

\* Except with the log line appended in the handler as well.
ExceptAppendsLog(st, path, status) ==
  [st EXCEPT !.errors = Append(@, path), !.status = status,
             !.log = Append(@, LogLine(path, <<"dst", "error", "">>))]

\* except Exception as e: print(f"Error {full}: {e}") -- the iteration ends,
\* whatever the try block had already assigned stays assigned.
Except(st, path, status) ==
  [st EXCEPT !.errors = Append(@, path), !.status = status]

\* Body with log.append before copy().
BodyLogBeforeCopy(v, st0, in) ==
  LET st == [st0 EXCEPT !.status = "ok", !.decision = "NONE", !.branch = "none"] IN
  IF in.fault = "year" THEN Except(st, in.path, "year_error")
  ELSE IF in.fault = "md5" THEN Except(st, in.path, "md5_error")
  ELSE
    LET c  == Classify(v, in.md5, in.p, st.unique)
        s1 == [st EXCEPT !.unique = c.unique, !.decision = c.decision,
                         !.branch = c.branch]
        folder == Folder(c.decision, in.year)
        s2 == [s1 EXCEPT !.log = LogAppend(@, LogLine(in.path, folder))]
    IN
    IF c.decision = "NONE" THEN Except(s1, in.path, "classify_error")
    ELSE IF in.fault = "mkdir" THEN Except(s2, in.path, "copy_error")
    ELSE IF in.fault = "copy"
      THEN Except([s2 EXCEPT !.dst = TRUE], in.path, "copy_error")
    ELSE [s2 EXCEPT
            !.dst = TRUE,
            !.copies = Append(@, [src |-> in.path, folder |-> folder, file |-> in.path])]

\* One iteration of the loop body (the try block and its handler) on the
\* state st = [unique, log, copies, errors, dst, ...] with input in =
\* [path, fault, year, md5, p]: fault names the call that raises, if any
\* ("year": get_year, "md5": md5_hash, "mkdir": os.makedirs in copy, "copy":
\* shutil.copy2 in copy, "none").  os.makedirs creates dst with the folder.
Body(v, st0, in) ==
  LET st == [st0 EXCEPT !.status = "ok", !.decision = "NONE", !.branch = "none"] IN
  IF in.fault = "year" THEN Except(st, in.path, "year_error")
  ELSE IF in.fault = "md5" THEN Except(st, in.path, "md5_error")
  ELSE
    LET c  == Classify(v, in.md5, in.p, st.unique)
        s1 == [st EXCEPT !.unique = c.unique, !.decision = c.decision,
                         !.branch = c.branch]
        folder == Folder(c.decision, in.year)
    IN
    IF c.decision = "NONE" THEN Except(s1, in.path, "classify_error")
    ELSE IF in.fault = "mkdir" THEN Except(s1, in.path, "copy_error")
    ELSE IF in.fault = "copy"
      THEN Except([s1 EXCEPT !.dst = TRUE], in.path, "copy_error")
    ELSE [s1 EXCEPT
            !.dst = TRUE,
            !.copies = Append(@, [src |-> in.path, folder |-> folder, file |-> in.path]),
            !.log = LogAppend(@, LogLine(in.path, folder))]

\* The separator of "\n".join.
NewLine == [char |-> "\n"]

\* "\n".join(log): the lines with a newline between two of them.
RECURSIVE Join(_)
Join(lg) ==
  IF lg = << >> THEN << >>
  ELSE IF Len(lg) = 1 THEN << lg[1] >>
  ELSE << lg[1], NewLine >> \o Join(Tail(lg))

\* ------------------------------------------------------------------ inputs
\* phash(full) is called by the linux script only.
PResults(v) == IF v = "linux" THEN PHashes \cup {None} ELSE {None}

\* year and md5 of an iteration that raised before assigning them.
NoYear == ""
NoHash == ""

YearFaultInput(path) ==
  [path |-> path, fault |-> "year", year |-> NoYear, md5 |-> NoHash, p |-> None]

Md5FaultInput(path) ==
  [path |-> path, fault |-> "md5", year |-> NoYear, md5 |-> NoHash, p |-> None]

\* Inputs of an iteration in which get_year and md5_hash return.
HashedInputs(v, path) ==
  [path : {path}, fault : {"none"}, year : Years, md5 : Hashes, p : PResults(v)]

\* Inputs of an iteration in which copy() raises if it is reached.  The year
\* of such a file reaches no variable (the folder string is dropped with the
\* exception), so one year stands for all of them.
CopyFaultYears == { "2020" }

CopyFaultInputs(v, path) ==
  [path : {path}, fault : {"copy"}, year : CopyFaultYears, md5 : Hashes,
   p : PResults(v)]

\* Inputs of an iteration in which os.makedirs raises if copy() is reached.
MkdirFaultInputs(v, path) ==
  [path : {path}, fault : {"mkdir"}, year : CopyFaultYears, md5 : Hashes,
   p : PResults(v)]

\* ------------------------------------------------------------------- state
Init ==
  /\ variant \in Variants
  /\ pc = "loop"
  /\ idx = 0
  /\ unique = EmptyDict
  /\ log = << >>
  /\ copies = << >>
  /\ errors = << >>
  /\ dstExists \in BOOLEAN
  /\ logFile = << >>
  /\ logWrites = 0
  /\ hist = << >>

Current ==
  [unique |-> unique, log |-> log, copies |-> copies, errors |-> errors,
   dst |-> dstExists, status |-> "ok", decision |-> "NONE", branch |-> "none"]

\* Iterate with a second pass over the log: when the file is a duplicate,
\* the lines already in the log are filed as possible duplicates too.
IterateRelabels(in) ==
  /\ pc = "loop"
  /\ idx < MaxFiles
  /\ LET st == Body(variant, Current, in) IN
       /\ unique' = st.unique
       /\ log' = IF st.decision = "DUPLICATE"
                   THEN [k \in DOMAIN st.log |->
                           [st.log[k] EXCEPT
                              !.folder = Folder("DUPLICATE", st.log[k].folder[3])]]
                 ELSE st.log
       /\ copies' = st.copies
       /\ errors' = st.errors
       /\ dstExists' = st.dst
       /\ hist' = Append(hist, [in |-> in, status |-> st.status,
                                decision |-> st.decision, branch |-> st.branch,
                                seen |-> unique, after |-> st.unique])
  /\ idx' = idx + 1
  /\ UNCHANGED <<variant, pc, logFile, logWrites>>

\* The loop takes the next file and runs the body on it.
Iterate(in) ==
  /\ pc = "loop"
  /\ idx < MaxFiles
  /\ LET st == Body(variant, Current, in) IN
       /\ unique' = st.unique
       /\ log' = st.log
       /\ copies' = st.copies
       /\ errors' = st.errors
       /\ dstExists' = st.dst
       /\ hist' = Append(hist, [in |-> in, status |-> st.status,
                                decision |-> st.decision, branch |-> st.branch,
                                seen |-> unique, after |-> st.unique])
  /\ idx' = idx + 1
  /\ UNCHANGED <<variant, pc, logFile, logWrites>>

\* get_year raises (os.path.getmtime on a file that vanished, ...).
YearError == Iterate(YearFaultInput(idx + 1))

\* md5_hash raises (open / read fails).
Md5Error == Iterate(Md5FaultInput(idx + 1))

\* year, md5 and p are computed; classification and copy run.
Process == \E in \in HashedInputs(variant, idx + 1) : Iterate(in)

\* as Process, but copy() raises if it is reached.
CopyError == \E in \in CopyFaultInputs(variant, idx + 1) : Iterate(in)

\* as Process, but os.makedirs raises if copy() is reached and dst is not
\* created.  Once dst exists this is CopyError: the two leave the same state.
MkdirError ==
  /\ ~dstExists
  /\ \E in \in MkdirFaultInputs(variant, idx + 1) : Iterate(in)

\* os.walk is exhausted: the log file is opened with "w" and written.
WriteLog ==
  /\ pc = "loop"
  /\ dstExists
  /\ logFile' = Join(log)
  /\ logWrites' = logWrites + 1
  /\ pc' = "done"
  /\ UNCHANGED <<variant, idx, unique, log, copies, errors, dstExists, hist>>

\* os.walk is exhausted and dst does not exist (no copy() created it):
\* open(dst/log_organizacion.txt, "w") raises FileNotFoundError, outside any
\* try block; organize ends with the exception.
WriteLogNoDir ==
  /\ pc = "loop"
  /\ ~dstExists
  /\ pc' = "crashed"
  /\ UNCHANGED <<variant, idx, unique, log, copies, errors, dstExists, logFile,
                 logWrites, hist>>

Next ==
  \/ YearError \/ Md5Error \/ Process \/ CopyError \/ MkdirError
  \/ WriteLog \/ WriteLogNoDir

Spec == Init /\ [][Next]_vars

\* The interpreter runs the loop and the statement after it without pause:
\* every call returns or raises.
FairSpec == Spec /\ WF_vars(Next)

\* ------------------------------------------------ runs on a wider sample
\* The linux script on files with three digests and perceptual hashes 100,
\* 105, 110, 120 ("64", "69", "6e", "78") or None, all of one year.
WideHashes == { "d1", "d2", "d3" }
WidePHashes == { <<6, 4>>, <<6, 9>>, <<6, 14>>, <<7, 8>> }

WideInputs(path, fault) ==
  [path : {path}, fault : {fault}, year : CopyFaultYears, md5 : WideHashes,
   p : WidePHashes \cup {None}]

InitWide == Init /\ variant = "linux"

ProcessWide == \E in \in WideInputs(idx + 1, "none") : Iterate(in)

CopyErrorWide == \E in \in WideInputs(idx + 1, "copy") : Iterate(in)

NextWide == ProcessWide \/ CopyErrorWide \/ WriteLog \/ WriteLogNoDir

SpecWide == InitWide /\ [][NextWide]_vars

\* ============================================================== properties
Iters == 1..Len(hist)

\* The iteration computed the file's content hash (get_year and md5_hash
\* returned): the file is an image record.
Hashed(i) == hist[i].in.fault \notin { "year", "md5" }

\* The iteration reached a decision.
Classified(i) == hist[i].decision # "NONE"

LogSrcs == { log[k].src : k \in DOMAIN log }
CopySrcs == { copies[k].src : k \in DOMAIN copies }

\* Value of a two-digit hex string, written out.
Val2(s) == s[1] * 16 + s[2]

\* Distance of two present perceptual hashes as the spec defines it.
Dist(p, h) == IF Val2(p) >= Val2(h) THEN Val2(p) - Val2(h) ELSE Val2(h) - Val2(p)

\* The exact-plus-perceptual rule as the spec words it.
PolicyDuplicate(md5, p, seen) ==
  \/ md5 \in DOMAIN seen
  \/ /\ p # None
     /\ \E k \in DOMAIN seen : seen[k] # None /\ Dist(p, seen[k]) < 10

\* ---------------------------------------------------------------------- C1
\* C1: (linux) every image record is classified DUPLICATE iff its content
\* hash is a key of the seen set or its perceptual hash is present and within
\* distance 10 of a stored present hash; in every other case it is classified
\* UNIQUE and contentHash -> perceptualHash is inserted into the seen set.
C1_ExactPlusPerceptualPolicy ==
  variant = "linux" =>
    \A i \in Iters : Hashed(i) =>
      LET h == hist[i]
          dup == PolicyDuplicate(h.in.md5, h.in.p, h.seen)
      IN /\ (h.decision = "DUPLICATE") <=> dup
         /\ ~dup => /\ h.decision = "UNIQUE"
                    /\ h.after = Put(h.seen, h.in.md5, h.in.p)

\* ---------------------------------------------------------------------- C2
\* C2: (linux) an image whose perceptual hash is absent is never skipped for
\* that reason: it is classified by exact match only (DUPLICATE if its
\* content hash is in the seen set, otherwise UNIQUE and inserted with an
\* absent perceptual hash), and copied and logged unless the copy fails.
C2_AbsentHashNotSkipped ==
  variant = "linux" =>
    \A i \in Iters : (Hashed(i) /\ hist[i].in.p = None) =>
      LET h == hist[i] IN
      /\ h.decision = (IF h.in.md5 \in DOMAIN h.seen THEN "DUPLICATE" ELSE "UNIQUE")
      /\ h.in.md5 \notin DOMAIN h.seen => h.after = Put(h.seen, h.in.md5, None)
      /\ h.in.fault = "none" =>
           /\ h.status = "ok"
           /\ h.in.path \in LogSrcs
           /\ h.in.path \in CopySrcs

\* ---------------------------------------------------------------------- C3
\* (a) a content hash is a key of the seen set iff an image with that hash
\* was classified UNIQUE.
SeenIffUnique ==
  \A d \in Hashes :
    d \in DOMAIN unique <=>
      \E i \in Iters : hist[i].in.md5 = d /\ hist[i].decision = "UNIQUE"

\* (b) at most one image per content hash is classified UNIQUE.
AtMostOneUnique ==
  \A i, j \in Iters :
    (i # j /\ hist[i].decision = "UNIQUE" /\ hist[j].decision = "UNIQUE")
      => hist[i].in.md5 # hist[j].in.md5

\* (c) every image after the UNIQUE one with the same content hash is
\* classified DUPLICATE, whatever its perceptual hash.
LaterAreDuplicates ==
  \A i, j \in Iters :
    (i < j /\ hist[i].decision = "UNIQUE" /\ Hashed(j)
       /\ hist[j].in.md5 = hist[i].in.md5)
      => hist[j].decision = "DUPLICATE"

\* The UNIQUE image is the first classified image with its content hash.
UniqueIsFirstOccurrence ==
  \A i \in Iters : hist[i].decision = "UNIQUE" =>
    ~ \E j \in 1..(i - 1) : Classified(j) /\ hist[j].in.md5 = hist[i].in.md5

\* (linux) the classified images before the UNIQUE one with its content hash
\* were all classified DUPLICATE by the similarity branch.
EarlierWereSimilar ==
  \A i \in Iters : hist[i].decision = "UNIQUE" =>
    \A j \in 1..(i - 1) :
      (Classified(j) /\ hist[j].in.md5 = hist[i].in.md5) =>
        /\ variant = "linux"
        /\ hist[j].decision = "DUPLICATE"
        /\ hist[j].branch = "similar"

C4_ExactMatchWins ==
  \A i, j \in Iters :
    (i < j /\ hist[i].decision = "UNIQUE" /\ Hashed(j)
       /\ hist[j].in.md5 = hist[i].in.md5)
      => /\ hist[j].decision = "DUPLICATE"
         /\ hist[j].branch = "exact"
         /\ hist[j].after = hist[j].seen

\* Witness of C4: (linux) the later image has no perceptual hash while a
\* present one is stored (the comparison would raise), and another later
\* image with the same content hash has a present hash near a stored one.
C4_Witness ==
  /\ variant = "linux"
  /\ \E i, j \in Iters :
       /\ i < j
       /\ hist[i].decision = "UNIQUE"
       /\ hist[i].in.p # None
       /\ hist[j].in.md5 = hist[i].in.md5
       /\ hist[j].in.p = None
       /\ hist[j].decision = "DUPLICATE"
  /\ \E i, j \in Iters :
       /\ i < j
       /\ hist[i].decision = "UNIQUE"
       /\ hist[j].in.md5 = hist[i].in.md5
       /\ hist[j].in.p # None
       /\ hist[j].in.p # hist[i].in.p
       /\ hist[j].decision = "DUPLICATE"

\* ---------------------------------------------------------------------- C5
\* C5: (linux) an image with an absent perceptual hash is classified
\* DUPLICATE only if its content hash is in the seen set, and an image
\* classified DUPLICATE whose content hash is not in the seen set has a
\* present perceptual hash within distance 10 of a present stored one: an
\* absent stored hash never makes a duplicate.
C5_AbsentExcluded ==
  variant = "linux" =>
    \A i \in Iters : (Hashed(i) /\ hist[i].decision = "DUPLICATE") =>
      LET h == hist[i] IN
      /\ h.in.p = None => h.in.md5 \in DOMAIN h.seen
      /\ h.in.md5 \notin DOMAIN h.seen =>
           /\ h.in.p # None
           /\ \E k \in DOMAIN h.seen :
                h.seen[k] # None /\ Dist(h.in.p, h.seen[k]) < 10

\* Witness of C5: an image without perceptual hash is UNIQUE and stored; a
\* later image without perceptual hash is DUPLICATE by its content hash, and
\* an image with another content hash and a present perceptual hash is UNIQUE
\* although an absent hash is stored.
C5_Witness ==
  /\ variant = "linux"
  /\ \E i, j, k \in Iters :
       /\ i < j /\ j < k
       /\ hist[i].decision = "UNIQUE" /\ hist[i].in.p = None
       /\ hist[j].decision = "DUPLICATE" /\ hist[j].in.p = None
       /\ hist[j].in.md5 = hist[i].in.md5
       /\ hist[k].decision = "UNIQUE" /\ hist[k].in.p # None
       /\ hist[k].in.md5 # hist[i].in.md5

\* ---------------------------------------------------------------------- C6
\* The present perceptual hashes stored in a seen set.
Present(seen) == { seen[k] : k \in { k \in DOMAIN seen : seen[k] # None } }

\* C6: (linux) with no exact match and one stored perceptual hash h, an image
\* with perceptual hash p is DUPLICATE when |p - h| <= 9 and UNIQUE when
\* |p - h| >= 10, the hashes read as integers.  (Checked on the wider sample:
\* distances 5, 10, 15 and 20.)
C6_StrictThreshold ==
  variant = "linux" =>
    \A i \in Iters :
      (/\ Hashed(i)
       /\ hist[i].in.md5 \notin DOMAIN hist[i].seen
       /\ hist[i].in.p # None
       /\ Cardinality(Present(hist[i].seen)) = 1) =>
        LET h == CHOOSE x \in Present(hist[i].seen) : TRUE
            d == Dist(hist[i].in.p, h)
        IN /\ d <= 9 => hist[i].decision = "DUPLICATE"
           /\ d >= 10 => hist[i].decision = "UNIQUE"

\* Witness of C6: with 100 the only stored hash, 105 was classified DUPLICATE
\* and 110 (distance exactly 10) UNIQUE.
C6_Witness ==
  /\ variant = "linux"
  /\ \E i, j \in Iters :
       /\ Present(hist[i].seen) = { <<6, 4>> }
       /\ hist[i].in.md5 \notin DOMAIN hist[i].seen
       /\ hist[i].in.p = <<6, 9>>
       /\ hist[i].decision = "DUPLICATE"
       /\ Present(hist[j].seen) = { <<6, 4>> }
       /\ hist[j].in.md5 \notin DOMAIN hist[j].seen
       /\ hist[j].in.p = <<6, 14>>
       /\ hist[j].decision = "UNIQUE"

\* ---------------------------------------------------------------------- C7
\* C7: (macos) every image is classified DUPLICATE iff its content hash is a
\* key of the seen set, which it then leaves as it is; otherwise it is
\* classified UNIQUE and its content hash becomes a key.
C7_ExactOnlyPolicy ==
  variant = "macos" =>
    \A i \in Iters : Hashed(i) =>
      LET h == hist[i] IN
      /\ (h.decision = "DUPLICATE") <=> (h.in.md5 \in DOMAIN h.seen)
      /\ (h.decision = "UNIQUE") <=> (h.in.md5 \notin DOMAIN h.seen)
      /\ h.decision = "DUPLICATE" => h.after = h.seen
      /\ h.decision = "UNIQUE" =>
           DOMAIN h.after = (DOMAIN h.seen) \cup { h.in.md5 }

\* Witness of C7: (macos) a UNIQUE image, then a DUPLICATE with its content
\* hash, then a UNIQUE image with the other content hash.
C7_Witness ==
  /\ variant = "macos"
  /\ Len(hist) = 3
  /\ hist[1].decision = "UNIQUE"
  /\ hist[2].decision = "DUPLICATE"
  /\ hist[3].decision = "UNIQUE"

\* ---------------------------------------------------------------------- C8
\* State of organize() before the loop.
Start ==
  [unique |-> EmptyDict, log |-> << >>, copies |-> << >>, errors |-> << >>,
   dst |-> FALSE, status |-> "ok", decision |-> "NONE", branch |-> "none"]

\* What the run has done with each file so far.
Outcome(path, st) ==
  [path |-> path, status |-> st.status, decision |-> st.decision,
   unique |-> st.unique, log |-> st.log, copies |-> st.copies,
   errors |-> st.errors]

\* The loop on a given sequence of inputs: what it does with each file.
RECURSIVE Outcomes(_, _, _)
Outcomes(v, st, ins) ==
  IF ins = << >> THEN << >>
  ELSE LET s == Body(v, st, Head(ins)) IN
       << Outcome(Head(ins).path, s) >> \o Outcomes(v, s, Tail(ins))

\* A sequence without its i-th element.
Without(q, i) == SubSeq(q, 1, i - 1) \o SubSeq(q, i + 1, Len(q))

Inputs == [i \in Iters |-> hist[i].in]

\* The iteration's get_year or md5_hash raised.
Skipped(i) == hist[i].in.fault \in { "year", "md5" }

\* C8: a file whose year resolution or hashing raises is not copied, gets no
\* log entry and leaves the seen set as it was (its path is printed by the
\* handler), and the run on the sequence without that file does with every
\* other file what this run does with it (same status, decision and seen set
\* after it) and ends with the same seen set, log and copies, and the same
\* errors but this file's.
C8_SkipOnHashError ==
  \A i \in Iters : Skipped(i) =>
    /\ hist[i].in.path \notin LogSrcs
    /\ hist[i].in.path \notin CopySrcs
    /\ hist[i].after = hist[i].seen
    /\ \E k \in DOMAIN errors : errors[k] = hist[i].in.path
    /\ LET other == Outcomes(variant, Start, Without(Inputs, i))
           final == IF other = << >> THEN Outcome(0, Start)
                    ELSE other[Len(other)]
       IN /\ Len(other) = Len(hist) - 1
          /\ \A k \in 1..Len(other) :
               LET j == IF k < i THEN k ELSE k + 1 IN
               /\ other[k].path = hist[j].in.path
               /\ other[k].status = hist[j].status
               /\ other[k].decision = hist[j].decision
               /\ other[k].unique = hist[j].after
          /\ final.log = log
          /\ final.copies = copies
          /\ final.unique = unique
          /\ final.errors = SelectSeq(errors, LAMBDA e : e # hist[i].in.path)

\* Witness of C8: a file whose hashing raised lies between a UNIQUE image and
\* a later image classified DUPLICATE, and both are in the log.
C8_Witness ==
  /\ Len(hist) = 3
  /\ hist[1].decision = "UNIQUE" /\ hist[1].status = "ok"
  /\ hist[2].status = "md5_error"
  /\ hist[3].decision = "DUPLICATE" /\ hist[3].status = "ok"
  /\ errors = << 2 >>
  /\ Len(log) = 2

\* ---------------------------------------------------------------------- C9
CopyFailed(i) == hist[i].status = "copy_error"

\* C9 as stated: a failure of copy() is not caught for the file: the handler
\* does not report it, no later file is processed and the log file is not
\* written.
C9_CopyFailurePropagates ==
  \A i \in Iters : CopyFailed(i) =>
    /\ \A k \in DOMAIN errors : errors[k] # hist[i].in.path
    /\ i = Len(hist)
    /\ pc # "done"

\* C9 amended: a failure of copy() is caught for the file by the handler of
\* the loop body: the path is reported, the file gets no log entry and is not
\* among the copies, and the run goes on (the next file can be processed,
\* the statement that writes the log file can be reached).
C9_CopyFailureCaught ==
  \A i \in Iters : CopyFailed(i) =>
    /\ \E k \in DOMAIN errors : errors[k] = hist[i].in.path
    /\ hist[i].in.path \notin LogSrcs
    /\ hist[i].in.path \notin CopySrcs
    /\ (pc = "loop" /\ idx < MaxFiles) => ENABLED Process
    /\ pc = "loop" => ENABLED (WriteLog \/ WriteLogNoDir)

\* Witness of C9: the copy of the first file failed, the second file was
\* copied and logged, and the log file has been written with that one line.
C9_Witness ==
  /\ Len(hist) >= 2
  /\ CopyFailed(1)
  /\ hist[2].status = "ok"
  /\ pc = "done"
  /\ logFile = << log[1] >>
  /\ log[1].src = 2

\* --------------------------------------------------------------------- C10
\* The lines of the files that were classified and copied, in arrival order.
RECURSIVE OkLines(_)
OkLines(h) ==
  IF h = << >> THEN << >>
  ELSE LET r == h[Len(h)]
           before == OkLines(SubSeq(h, 1, Len(h) - 1))
       IN IF r.status = "ok"
            THEN before \o << [src |-> r.in.path,
                               folder |-> << "dst",
                                   IF r.decision = "UNIQUE" THEN "Fotos"
                                   ELSE "Posibles_Duplicados",
                                   r.in.year >>,
                               file |-> r.in.path] >>
            ELSE before

\* Number of lines of a written file.
NumLines(f) == Cardinality({ k \in DOMAIN f : f[k] # NewLine })

LogState ==
  /\ log = OkLines(hist)
  /\ Len(copies) = Len(log)
  /\ \A k \in DOMAIN log :
       copies[k].src = log[k].src /\ copies[k].folder = log[k].folder
  /\ logWrites = (IF pc = "done" THEN 1 ELSE 0)
  /\ pc = "loop" => logFile = << >>
  /\ pc = "done" =>
       /\ NumLines(logFile) = Len(log)
       /\ \A k \in DOMAIN log : logFile[2 * k - 1] = log[k]

LogStep ==
  /\ Len(log') >= Len(log)
  /\ Len(log') <= Len(log) + 1
  /\ SubSeq(log', 1, Len(log)) = log
  /\ log' # log => (Len(copies') = Len(copies) + 1 /\ pc = "loop")
  /\ logWrites' # logWrites => (pc = "loop" /\ pc' = "done")
  /\ pc = "done" => (hist' = hist /\ logFile' = logFile)

\* C10: the log holds one entry per file classified and copied, in arrival
\* order; a step appends at most one entry, only together with the file's
\* copy, and changes no earlier entry; the log file is written once, after
\* which no file is processed, and holds the entries in that order.
C10_LogInOrder == [](LogState) /\ [][LogStep]_vars

\* Witness of C10: three files, the second one failed; the log file has been
\* written and holds the first and the third file's lines in that order.
C10_Witness ==
  /\ pc = "done"
  /\ Len(hist) = 3
  /\ hist[1].status = "ok"
  /\ hist[2].status # "ok"
  /\ hist[3].status = "ok"
  /\ logFile = << log[1], NewLine, log[2] >>
  /\ log[1].src = 1 /\ log[2].src = 3

\* --------------------------------------------------------------------- C11
\* Every file the loop has taken was attempted once, in arrival order.
AttemptedOnce ==
  /\ Len(hist) = idx
  /\ \A i \in Iters : hist[i].in.path = i

\* C11: whatever files are enumerated and whichever of them fail (year,
\* hashing, classification, copy), the run eventually completes with the log
\* file written, and every file taken so far has been attempted exactly once.
C11_RunCompletes == <>(pc = "done" /\ logWrites = 1) /\ [](AttemptedOnce)

\* --------------------------------------------------------------------- C12
\* The images seen so far have pairwise distinct content hashes and present
\* perceptual hashes pairwise at least 10 apart.
DistinctAndFar ==
  /\ \A i \in Iters : Hashed(i) /\ hist[i].in.p # None
  /\ \A i, j \in Iters : i # j =>
       /\ hist[i].in.md5 # hist[j].in.md5
       /\ Dist(hist[i].in.p, hist[j].in.p) >= 10

\* C12: (linux) if the images have pairwise distinct content hashes and
\* present perceptual hashes pairwise at least 10 apart, every one of them is
\* classified UNIQUE and the seen set holds one entry per image.
C12_FarApartAllUnique ==
  DistinctAndFar =>
    /\ \A i \in Iters : hist[i].decision = "UNIQUE"
    /\ Cardinality(DOMAIN unique) = Len(hist)
    /\ \A i \in Iters :
         /\ hist[i].in.md5 \in DOMAIN unique
         /\ unique[hist[i].in.md5] = hist[i].in.p

\* Witness of C12: three such images (100, 110, 120 in some order), the copy
\* of one of them failed.
C12_Witness ==
  /\ Len(hist) = 3
  /\ DistinctAndFar
  /\ \E i \in Iters : hist[i].status = "copy_error"
  /\ Cardinality(DOMAIN unique) = 3

\* --------------------------------------------------------------------- C13
\* The copy made of the file of iteration i (its only one).
CopyOf(i) == copies[CHOOSE k \in DOMAIN copies : copies[k].src = hist[i].in.path]

\* C13: every copied file lies in dst/Fotos/year exactly when it was
\* classified UNIQUE and in dst/Posibles_Duplicados/year exactly when it was
\* classified DUPLICATE, year being the file's year; no other category is
\* used; two files with the same decision and year lie in the same folder.
C13_DestinationResolution ==
  /\ \A k \in DOMAIN copies :
       /\ copies[k].folder[1] = "dst"
       /\ copies[k].folder[2] \in { "Fotos", "Posibles_Duplicados" }
       /\ \E i \in Iters : hist[i].status = "ok" /\ hist[i].in.path = copies[k].src
  /\ \A i \in Iters : hist[i].status = "ok" =>
       /\ Cardinality({ k \in DOMAIN copies : copies[k].src = hist[i].in.path }) = 1
       /\ CopyOf(i).folder[3] = hist[i].in.year
       /\ (CopyOf(i).folder[2] = "Fotos") <=> (hist[i].decision = "UNIQUE")
       /\ (CopyOf(i).folder[2] = "Posibles_Duplicados")
            <=> (hist[i].decision = "DUPLICATE")
  /\ \A i, j \in Iters :
       (/\ hist[i].status = "ok" /\ hist[j].status = "ok"
        /\ hist[i].decision = hist[j].decision
        /\ hist[i].in.year = hist[j].in.year)
         => CopyOf(i).folder = CopyOf(j).folder

\* Witness of C13: a UNIQUE image of 2020 and a DUPLICATE of 2021 have been
\* copied, and a second DUPLICATE of 2021.
C13_Witness ==
  /\ Len(copies) = 3
  /\ copies[1].folder = << "dst", "Fotos", "2020" >>
  /\ copies[2].folder = << "dst", "Posibles_Duplicados", "2021" >>
  /\ copies[3].folder = << "dst", "Posibles_Duplicados", "2021" >>

\* --------------------------------------------------------------------- C14
SeenGrowsState ==
  \A i \in Iters :
    LET h == hist[i] IN
    /\ h.decision = "DUPLICATE" => h.after = h.seen
    /\ h.decision = "UNIQUE" =>
         /\ h.in.md5 \notin DOMAIN h.seen
         /\ DOMAIN h.after = (DOMAIN h.seen) \cup { h.in.md5 }
         /\ \A k \in DOMAIN h.seen : h.after[k] = h.seen[k]

SeenGrowsStep ==
  /\ (DOMAIN unique) \subseteq (DOMAIN unique')
  /\ \A k \in DOMAIN unique : unique'[k] = unique[k]
  /\ Cardinality(DOMAIN unique') <= Cardinality(DOMAIN unique) + 1

\* C14: processing an image classified DUPLICATE (by exact match or by
\* similarity) leaves the seen set unchanged, processing one classified
\* UNIQUE adds exactly one entry, and no step removes or overwrites an entry.
C14_SeenSetGrows == [](SeenGrowsState) /\ [][SeenGrowsStep]_vars

\* Witness of C14: (linux) a UNIQUE image, a DUPLICATE by similarity, a
\* DUPLICATE by exact match; the seen set holds the first image only.
C14_Witness ==
  /\ variant = "linux"
  /\ Len(hist) = 3
  /\ hist[1].decision = "UNIQUE"
  /\ hist[2].decision = "DUPLICATE" /\ hist[2].branch = "similar"
  /\ hist[3].decision = "DUPLICATE" /\ hist[3].branch = "exact"
  /\ unique = hist[1].after
  /\ Cardinality(DOMAIN unique) = 1

\* --------------------------------------------------------------------- C15
\* The run is the one the loop computes from the records taken so far: each
\* recorded status, decision and seen set, and the log, copies and errors.
RunOfInputs ==
  LET o == Outcomes(variant, Start, Inputs)
      final == IF o = << >> THEN Outcome(0, Start) ELSE o[Len(o)]
  IN /\ Len(o) = Len(hist)
     /\ \A k \in Iters :
          /\ o[k].status = hist[k].status
          /\ o[k].decision = hist[k].decision
          /\ o[k].unique = hist[k].after
          /\ Len(o[k].log) <= Len(log)
          /\ o[k].log = SubSeq(log, 1, Len(o[k].log))
     /\ final.log = log
     /\ final.unique = unique
     /\ final.copies = copies
     /\ final.errors = errors

\* A step keeps every recorded decision and every log line.
RecordedStays ==
  /\ Len(hist') >= Len(hist)
  /\ SubSeq(hist', 1, Len(hist)) = hist
  /\ Len(log') >= Len(log)
  /\ SubSeq(log', 1, Len(log)) = log

C16_FailureLeavesNoTrace ==
  \A i \in Iters : hist[i].status # "ok" =>
    /\ hist[i].after = hist[i].seen
    /\ hist[i].in.path \notin LogSrcs

\* --------------------------------------------------------------------- C17
\* The category of a log line.
Category(l) == l.folder[2]

\* The image of log line j can be the canonical image of the image of log
\* line k: same content hash, or (linux) present perceptual hashes within
\* distance 10.
CanonicalFor(j, k) ==
  LET a == hist[log[j].src].in
      b == hist[log[k].src].in
  IN \/ a.md5 = b.md5
     \/ /\ variant = "linux"
        /\ a.p # None /\ b.p # None
        /\ Dist(a.p, b.p) < 10

\* C17: every log line under Posibles_Duplicados is preceded in the log by a
\* line under Fotos of an image with the same content hash or (linux) a
\* present perceptual hash within distance 10.
C17_DuplicateHasCanonical ==
  \A k \in DOMAIN log : Category(log[k]) = "Posibles_Duplicados" =>
    \E j \in 1..(k - 1) : Category(log[j]) = "Fotos" /\ CanonicalFor(j, k)

\* --------------------------------------------------------------------- C18
\* No record taken so far has a perceptual hash.
AllAbsent == \A i \in Iters : hist[i].in.p = None

\* C18: when every image has an absent perceptual hash, the macos loop run on
\* the records of the linux run gives every file the same status and decision
\* and, after every file, a seen set with the same keys and the same log (and
\* the same copies and errors).
C18_VariantsAgreeWhenAbsent ==
  (variant = "linux" /\ AllAbsent) =>
    LET m == Outcomes("macos", Start, Inputs)
        l == Outcomes("linux", Start, Inputs)
        final == IF m = << >> THEN Outcome(0, Start) ELSE m[Len(m)]
    IN /\ Len(m) = Len(hist)
       /\ \A k \in Iters :
            /\ m[k].status = hist[k].status
            /\ m[k].decision = hist[k].decision
            /\ DOMAIN m[k].unique = DOMAIN hist[k].after
            /\ m[k].log = l[k].log
            /\ m[k].copies = l[k].copies
       /\ DOMAIN final.unique = DOMAIN unique
       /\ final.log = log
       /\ final.copies = copies
       /\ final.errors = errors

\* Witness of C18: (linux) three images without perceptual hash: UNIQUE,
\* DUPLICATE of it, UNIQUE with the other content hash, all logged.
C18_Witness ==
  /\ variant = "linux"
  /\ AllAbsent
  /\ Len(hist) = 3
  /\ hist[1].decision = "UNIQUE"
  /\ hist[2].decision = "DUPLICATE"
  /\ hist[3].decision = "UNIQUE"
  /\ Len(log) = 3

====
